---- MODULE Spec2Model ----
(***************************************************************************)
(* HairXYou: state store, scene composer, interactive hair styling and     *)
(* hair care, as one event-driven state machine.                           *)
(*                                                                         *)
(* The page is single threaded: every action below is one complete event   *)
(* handler (a click handler or a timer callback) run to its end, with      *)
(* every call it makes.  A handler is translated as a function from the    *)
(* record of all program state to the record after it; `threw` records     *)
(* that the handler ended with an uncaught exception, in which case the    *)
(* statements after the throwing one have not run.                         *)
(*                                                                         *)
(* The revision of the renderer and of the hair system that is modelled    *)
(* is the enhanced one (character-renderer.js 440-1795, hair-care.js       *)
(* 174-878); the earlier flat-colour revision in the same files is         *)
(* superseded by it.                                                       *)
(***************************************************************************)
EXTENDS Integers, Sequences, FiniteSets, TLC

VARIABLES
    gameState,              \* state.js: gameState (character, currentActivity)
    svg,                    \* children of the #character element, in document order
    currentStyling,         \* hair-system.js: id of the session's style, or NULL
    completedSections,      \* hair-system.js: array of clicked section indices
    currentHairCareStep,    \* hair-care.js: active step id, or NULL
    careClicks,             \* hair-care.js: clicks counted for the current step
    stylingInstructions,    \* the #stylingInstructions element of the tool panel
    hairCareInstructions,   \* the #hairCareInstructions element of the tool panel
    dismissTimers,          \* pending 2 s timers of completeStyling, oldest first
    sparkles,               \* sparkle elements on the page, each with a 1 s removal timer
    threw,                  \* the last handler ended with an uncaught exception
    mounted,                \* the #character element is in the document
    exports,                \* app.js: the raster exports started, oldest first
    saveMessages,           \* app.js: the save messages on the page, oldest first
    colorArg,               \* the hex string handed to a colour helper, one character per element
    percentArg,             \* the percent handed to a colour helper
    colorResult,            \* the helper called last and the string it returned
    random                  \* what Math.random returned to the last two renders, newest last

vars == <<gameState, svg, currentStyling, completedSections, currentHairCareStep,
          careClicks, stylingInstructions, hairCareInstructions, dismissTimers,
          sparkles, threw, mounted, exports, saveMessages,
          colorArg, percentArg, colorResult, random>>

NULL == "null"

-----------------------------------------------------------------------------
(* Bounds of the model *)

\* placeholder regions created per session of the style with the most regions offered
MaxSections == 2
\* pending dismissal timers
MaxDismiss == 1
\* sparkle elements on the page at once
MaxSparkles == 1
\* cap of the hair-care click counter
MaxCareClicks == 6

-----------------------------------------------------------------------------
(* Program constants *)

CLICKS_NEEDED == 5

Min(a, b) == IF a < b THEN a ELSE b

\* hair-system.js: the hairstyle catalogue
hairstyles ==
    [ s \in {"afro", "box-braids", "cornrows", "two-strand-twists", "flat-twists",
             "locs", "wash-and-go"} |->
        CASE s = "afro"              -> [interactive |-> FALSE, sections |-> 0]
          [] s = "box-braids"        -> [interactive |-> TRUE,  sections |-> 12]
          [] s = "cornrows"          -> [interactive |-> TRUE,  sections |-> 8]
          [] s = "two-strand-twists" -> [interactive |-> TRUE,  sections |-> 16]
          [] s = "flat-twists"       -> [interactive |-> TRUE,  sections |-> 6]
          [] s = "locs"              -> [interactive |-> FALSE, sections |-> 0]
          [] s = "wash-and-go"       -> [interactive |-> FALSE, sections |-> 0] ]

StyleIds == DOMAIN hairstyles
InteractiveIds == {s \in StyleIds : hairstyles[s].interactive}

\* style.sections as the model sees it: the catalogue's count scaled so that
\* box braids have MaxSections regions, at least one region and at most
\* MaxSections; styles of different counts keep different counts
Sections(styleId) ==
    LET scaled == (hairstyles[styleId].sections * MaxSections)
                      \div hairstyles["box-braids"].sections
    IN  IF scaled < 1 THEN 1 ELSE Min(scaled, MaxSections)

\* part_002: the activity menu
activities == {"character-creation", "hair-care", "hair-styling", "dress-up",
               "nails", "makeup"}

\* the activities the modelled user opens; nails and makeup are panels of
\* option buttons like dress-up and character-creation
OpenedActivities == {"character-creation", "hair-care", "hair-styling", "dress-up"}

\* hair-care.js: the steps of loadHairCare
steps == {"wet", "shampoo", "condition", "detangle", "rinse"}

\* the step buttons the modelled user presses: the first and the last
StartedSteps == {"wet", "rinse"}

\* the style cards the modelled user presses: an instant and an interactive
\* style whose generator reads the shared defs (afro, box-braids), and an
\* instant and an interactive style whose generator does not (locs, cornrows)
OfferedStyles == {"afro", "locs", "box-braids", "cornrows"}

\* hair-care.js: keys of the texture table
hairTextures == {"4c", "4b", "4a", "3c", "3b", "3a"}

\* state.js: the initial gameState
InitGameState ==
    [ character |->
        [ appearance |-> [skinTone |-> "#8D5524", faceShape |-> "oval"],
          hair       |-> [texture |-> "4c", length |-> "medium", moisture |-> 100,
                          style |-> "afro", color |-> "#1A1A1A"],
          outfit     |-> [top |-> "tshirt-pink", bottom |-> "jeans", shoes |-> "sneakers"],
          nails      |-> [color |-> "#FF69B4", length |-> "medium"],
          makeup     |-> [lipstick |-> "none", eyeshadow |-> "none"] ],
      currentActivity |-> NULL ]

\* the panel writes with the texture button writing the texture's display
\* name in place of its key
PanelWritesByName ==
    { <<"dress-up", <<"character", "outfit", "top">>, "dress-red">>,
      <<"dress-up", <<"character", "outfit", "top">>, "tshirt-pink">>,
      <<"character-creation", <<"character", "hair", "texture">>, "Type 3A">>,
      <<"character-creation", <<"character", "hair", "texture">>, "Type 4C">> }

\* the writes the option panels can make: <<activity, path, value>>.  The
\* values are catalogue entries; each panel offers the default and one other.
PanelWrites ==
    { <<"dress-up", <<"character", "outfit", "top">>, "dress-red">>,
      <<"dress-up", <<"character", "outfit", "top">>, "tshirt-pink">>,
      <<"character-creation", <<"character", "hair", "texture">>, "3a">>,
      <<"character-creation", <<"character", "hair", "texture">>, "4c">> }

-----------------------------------------------------------------------------
(* The state store *)

\* updateState's walk along the split path and the final assignment
RECURSIVE SetPath(_, _, _)
SetPath(obj, keys, value) ==
    IF Len(keys) = 1
    THEN [obj EXCEPT ![keys[1]] = value]
    ELSE [obj EXCEPT ![keys[1]] = SetPath(obj[keys[1]], Tail(keys), value)]

\* getState
RECURSIVE GetPath(_, _)
GetPath(obj, keys) ==
    IF keys = <<>> THEN obj ELSE GetPath(obj[keys[1]], Tail(keys))

-----------------------------------------------------------------------------
(* The scene composer *)

\* the identifiers are atomic in the model; String.includes(word) on them is
\* membership of word among the hyphen-separated parts of the identifier
WordsOf(id) ==
    CASE id \in {"dress-red", "dress-green"}                -> {"dress"}
      [] id \in {"tshirt-pink", "tshirt-purple", "tshirt-blue",
                 "tshirt-yellow"}                           -> {"tshirt"}
      [] id = "jeans"                                       -> {"jeans"}
      [] id \in {"skirt-pink", "skirt-purple"}              -> {"skirt"}
      [] id = "shorts-blue"                                 -> {"shorts"}
      [] OTHER                                              -> {}

IdIncludes(id, word) == word \in WordsOf(id)

\* getOutfitData: the keys of the outfit database
allOutfits ==
    {"tshirt-pink", "tshirt-purple", "tshirt-blue", "tshirt-yellow",
     "dress-red", "dress-green",
     "jeans", "skirt-pink", "skirt-purple", "shorts-blue",
     "sneakers", "boots-black", "sandals-pink", "heels-red"}

\* a shape appended to the scene: the name of the element and the value its
\* fill is computed from
Shape(name, fill) == [name |-> name, fill |-> fill]

\* renderOutfit with the bottom drawn under a dress as well
RenderOutfitBottomAlways(outfit) ==
    LET top    == << Shape("top", outfit.top), Shape("leftSleeve", outfit.top),
                     Shape("rightSleeve", outfit.top) >>
                  \o (IF IdIncludes(outfit.top, "dress")
                      THEN << Shape("dressSkirt", outfit.top) >> ELSE << >>)
        bottom == IF IdIncludes(outfit.bottom, "jeans") \/ IdIncludes(outfit.bottom, "shorts")
                  THEN << Shape("leftPantLeg", outfit.bottom),
                          Shape("rightPantLeg", outfit.bottom) >>
                  ELSE << Shape("skirt", outfit.bottom) >>
    IN  [threw |-> FALSE, shapes |-> top \o bottom]

\* renderOutfit: the shapes appended, and whether it ended in a TypeError
\* (outfitData.top.id read on an unknown top while the bottom is known)
RenderOutfit(outfit) ==
    LET hasTop    == outfit.top \in allOutfits
        hasBottom == outfit.bottom \in allOutfits
        hasShoes  == outfit.shoes \in allOutfits
        top    == IF hasTop
                  THEN << Shape("top", outfit.top), Shape("leftSleeve", outfit.top),
                          Shape("rightSleeve", outfit.top) >>
                       \o (IF IdIncludes(outfit.top, "dress")
                           THEN << Shape("dressSkirt", outfit.top) >> ELSE << >>)
                  ELSE << >>
        bottom == IF hasBottom /\ ~IdIncludes(outfit.top, "dress")
                  THEN IF IdIncludes(outfit.bottom, "jeans") \/ IdIncludes(outfit.bottom, "shorts")
                       THEN << Shape("leftPantLeg", outfit.bottom),
                               Shape("rightPantLeg", outfit.bottom) >>
                       ELSE << Shape("skirt", outfit.bottom) >>
                  ELSE << >>
        shoes  == IF hasShoes
                  THEN << Shape("leftShoe", outfit.shoes), Shape("leftShoeDetail", outfit.shoes),
                          Shape("rightShoe", outfit.shoes), Shape("rightShoeDetail", outfit.shoes) >>
                  ELSE << >>
    IN  IF hasBottom /\ ~hasTop
        THEN [threw |-> TRUE,  shapes |-> top]
        ELSE [threw |-> FALSE, shapes |-> top \o bottom \o shoes]

\* renderFacialFeatures with the eyeshadow pair drawn unconditionally
RenderFacialFeaturesAlways(makeup) ==
    << Shape("leftEyeshadow", makeup.eyeshadow),
       Shape("rightEyeshadow", makeup.eyeshadow),
       Shape("eyes", "fixed"), Shape("nose", "fixed"),
       Shape("mouth", "natural"), Shape("cheeks", "fixed") >>

\* renderFacialFeatures: the eyeshadow pair when makeup is applied, then the
\* eyes, nose, mouth and cheeks
RenderFacialFeatures(makeup) ==
    (IF makeup.eyeshadow # "" /\ makeup.eyeshadow # "none"
     THEN << Shape("leftEyeshadow", makeup.eyeshadow),
             Shape("rightEyeshadow", makeup.eyeshadow) >>
     ELSE << >>)
    \o << Shape("eyes", "fixed"), Shape("nose", "fixed"),
          Shape("mouth", IF makeup.lipstick # "" /\ makeup.lipstick # "none"
                         THEN makeup.lipstick ELSE "natural"),
          Shape("cheeks", "fixed") >>

\* hair-care.js: coilTightness and volume of the texture table, in hundredths
hairTextureTable ==
    [ k \in {"4c", "4b", "4a", "3c", "3b", "3a"} |->
        CASE k = "4c" -> [coilTightness |-> 95, volume |-> 150]
          [] k = "4b" -> [coilTightness |-> 85, volume |-> 140]
          [] k = "4a" -> [coilTightness |-> 75, volume |-> 130]
          [] k = "3c" -> [coilTightness |-> 65, volume |-> 120]
          [] k = "3b" -> [coilTightness |-> 55, volume |-> 115]
          [] k = "3a" -> [coilTightness |-> 45, volume |-> 110] ]

\* a sparkle circle: cx, cy, r and opacity are computed from Math.random()
Sparkle(draw) == [name |-> "sparkle", fill |-> "white", at |-> draw]

\* n copies of a shape
Repeat(n, shape) == [i \in 1..n |-> shape]

\* Math.floor(15 * texture.coilTightness)
CoilCount(key) == (15 * hairTextureTable[key].coilTightness) \div 100

\* renderAfro(hairGroup, state, texture): the shapes appended to the group,
\* and whether it ended in a TypeError.  texture.volume is read first (an
\* undefined texture throws there); then the defs are looked up through
\* hairGroup.ownerSVGElement, which is null while the group is detached; the
\* shapes are appended after that.
RenderAfro(attached, color, key, draw) ==
    IF key \notin DOMAIN hairTextureTable \/ ~attached
    THEN [threw |-> TRUE, shapes |-> << >>]
    ELSE [threw |-> FALSE,
          shapes |->
             << Shape("afroShadow", "black"), Shape("afroBase", color) >>
             \o Repeat(CoilCount(key), Shape("coil", color))
             \o Repeat(3, Shape("shine", "white"))
             \o Repeat((8 * hairTextureTable[key].volume) \div 100, Shape("highlight", color))
             \o Repeat((12 * hairTextureTable[key].volume) \div 130, Sparkle(draw))]

\* the generators that look up the shared defs through
\* hairGroup.ownerSVGElement.  renderHair appends the group to the svg only
\* after the generator has run, so the owner is null and the lookup throws.
GeneratorsUsingDefs == {"renderAfro", "renderBoxBraids"}

\* renderHairByTexture: style -> generator, afro by default
GeneratorOf(style) ==
    CASE style = "afro"              -> "renderAfro"
      [] style = "wash-and-go"       -> "renderWashAndGo"
      [] style = "box-braids"        -> "renderBoxBraids"
      [] style = "cornrows"          -> "renderCornrows"
      [] style = "two-strand-twists" -> "renderTwoStrandTwists"
      [] style = "flat-twists"       -> "renderFlatTwists"
      [] style = "locs"              -> "renderLocs"
      [] OTHER                       -> "renderAfro"

\* the generators that read the texture entry
GeneratorsUsingTexture == {"renderAfro", "renderWashAndGo"}

\* renderHairByTexture on a detached group: does the generator throw?
HairGeneratorThrows(state) ==
    LET gen == GeneratorOf(state.hair.style) IN
    \/ gen \in GeneratorsUsingTexture /\ state.hair.texture \notin hairTextures
    \/ gen \in GeneratorsUsingDefs

\* the shapes the generator appends to the group renderHair hands it (a
\* detached one); the generators other than renderAfro are kept as one shape
\* carrying the generator's name
HairShapes(state, draw) ==
    LET gen == GeneratorOf(state.hair.style) IN
    IF gen = "renderAfro"
    THEN RenderAfro(FALSE, state.hair.color, state.hair.texture, draw).shapes
    ELSE << Shape(gen, state.hair.color) >>

\* renderHair with every shape of the generator placed by Math.random()
RenderHairScattered(state, draw) ==
    [ layer     |-> "hair",
      onclick   |-> FALSE,
      generator |-> GeneratorOf(state.hair.style),
      texture   |-> state.hair.texture,
      color     |-> state.hair.color,
      sections  |-> << >>,
      shapes    |-> [i \in DOMAIN HairShapes(state, draw) |->
                        [name |-> HairShapes(state, draw)[i].name,
                         fill |-> HairShapes(state, draw)[i].fill,
                         at   |-> draw]] ]

\* renderHair: the group with the generator's shapes
RenderHair(state, draw) ==
    [ layer     |-> "hair",
      onclick   |-> FALSE,
      generator |-> GeneratorOf(state.hair.style),
      texture   |-> state.hair.texture,
      color     |-> state.hair.color,
      sections  |-> << >>,
      shapes    |-> HairShapes(state, draw) ]

\* the shapes emitted before the hair, with the defs created after renderBody
LayersBeforeHairDefsLate(state) ==
    << [layer |-> "body", skinTone |-> state.appearance.skinTone],
       [layer |-> "defs"],
       [layer |-> "arms", skinTone |-> state.appearance.skinTone],
       [layer |-> "legs", skinTone |-> state.appearance.skinTone],
       [layer |-> "neck", skinTone |-> state.appearance.skinTone],
       [layer |-> "head", skinTone |-> state.appearance.skinTone],
       [layer |-> "face", makeup |-> state.makeup,
        shapes |-> RenderFacialFeatures(state.makeup)] >>

\* the shapes emitted before the hair, by render function; the defs element
\* with the lighting effects comes first
LayersBeforeHair(state) ==
    << [layer |-> "defs"],
       [layer |-> "body", skinTone |-> state.appearance.skinTone],
       [layer |-> "arms", skinTone |-> state.appearance.skinTone],
       [layer |-> "legs", skinTone |-> state.appearance.skinTone],
       [layer |-> "neck", skinTone |-> state.appearance.skinTone],
       [layer |-> "head", skinTone |-> state.appearance.skinTone],
       [layer |-> "face", makeup |-> state.makeup,
        shapes |-> RenderFacialFeatures(state.makeup)] >>

\* renderOutfit's shapes
OutfitLayer(state) ==
    [layer |-> "outfit", outfit |-> state.outfit,
     shapes |-> RenderOutfit(state.outfit).shapes]

\* the shapes emitted after the hair
LayersAfterHair(state) ==
    << OutfitLayer(state),
       [layer |-> "nails", color |-> state.nails.color] >>

\* the scene with renderOutfit called before renderHair
FullSceneOutfitFirst(state, draw) ==
    LayersBeforeHair(state) \o << OutfitLayer(state), RenderHair(state, draw),
                                  [layer |-> "nails", color |-> state.nails.color] >>

\* the scene of a render that ran to its end
FullScene(state, draw) ==
    LayersBeforeHair(state) \o << RenderHair(state, draw) >> \o LayersAfterHair(state)

\* Math.random() during the render of program state s
MathRandom(s) == IF s.random = << >> THEN 0 ELSE s.random[Len(s.random)]

\* renderCharacter without the test of the #character element: clearing a
\* missing element throws
RenderCharacterUnguarded(s) ==
    LET state == s.gameState.character IN
    IF ~s.mounted THEN [s EXCEPT !.threw = TRUE]
    ELSE IF HairGeneratorThrows(state)
    THEN [s EXCEPT !.svg = LayersBeforeHair(state), !.threw = TRUE]
    ELSE [s EXCEPT !.svg = FullScene(state, MathRandom(s))]

\* renderCharacter on the program state s: nothing without the #character
\* element; otherwise the scene is cleared and rebuilt up to the first render
\* function that throws
RenderCharacter(s) ==
    LET state == s.gameState.character IN
    IF ~s.mounted THEN s
    ELSE IF HairGeneratorThrows(state)
    THEN [s EXCEPT !.svg = LayersBeforeHair(state), !.threw = TRUE]
    ELSE IF RenderOutfit(state.outfit).threw
    THEN [s EXCEPT !.svg = LayersBeforeHair(state) \o << RenderHair(state, MathRandom(s)) >>
                           \o (IF RenderOutfit(state.outfit).shapes = << >>
                               THEN << >> ELSE << OutfitLayer(state) >>),
                   !.threw = TRUE]
    ELSE [s EXCEPT !.svg = FullScene(state, MathRandom(s))]

\* updateState(path, value): the write, then the re-render
UpdateState(s, path, value) ==
    RenderCharacter([s EXCEPT !.gameState = SetPath(s.gameState, path, value)])

-----------------------------------------------------------------------------
(* Program state as one record, and back *)

Cur ==
    [ gameState |-> gameState, svg |-> svg, currentStyling |-> currentStyling,
      completedSections |-> completedSections,
      currentHairCareStep |-> currentHairCareStep, careClicks |-> careClicks,
      stylingInstructions |-> stylingInstructions,
      hairCareInstructions |-> hairCareInstructions,
      dismissTimers |-> dismissTimers, sparkles |-> sparkles, threw |-> FALSE,
      mounted |-> mounted, exports |-> exports, saveMessages |-> saveMessages,
      colorArg |-> colorArg, percentArg |-> percentArg, colorResult |-> colorResult,
      random |-> random ]

WithinBounds(t) ==
    /\ Len(t.dismissTimers) <= MaxDismiss
    /\ t.sparkles <= MaxSparkles
    /\ t.careClicks <= MaxCareClicks

Becomes(t) ==
    /\ WithinBounds(t)
    /\ gameState' = t.gameState
    /\ svg' = t.svg
    /\ currentStyling' = t.currentStyling
    /\ completedSections' = t.completedSections
    /\ currentHairCareStep' = t.currentHairCareStep
    /\ careClicks' = t.careClicks
    /\ stylingInstructions' = t.stylingInstructions
    /\ hairCareInstructions' = t.hairCareInstructions
    /\ dismissTimers' = t.dismissTimers
    /\ sparkles' = t.sparkles
    /\ threw' = t.threw
    /\ mounted' = t.mounted
    /\ exports' = t.exports
    /\ saveMessages' = t.saveMessages
    /\ colorArg' = t.colorArg
    /\ percentArg' = t.percentArg
    /\ colorResult' = t.colorResult
    /\ random' = t.random

-----------------------------------------------------------------------------
(* The tool panel *)

\* no #stylingInstructions element in the document
NoStylingInstructions ==
    [exists |-> FALSE, display |-> "none", content |-> "empty",
     sectionsComplete |-> 0, progressWidth |-> <<0, 1>>]

\* no #hairCareInstructions element in the document
NoHairCareInstructions ==
    [exists |-> FALSE, content |-> "empty", progressWidth |-> 0]

\* loadHairStyling: the hidden, empty instruction area.  The #stylingProgress
\* bar and the #sectionsComplete read-out exist while content = "progress";
\* progressWidth is the bar's width in percent as the fraction <<num, den>>.
FreshStylingInstructions ==
    [exists |-> TRUE, display |-> "none", content |-> "empty",
     sectionsComplete |-> 0, progressWidth |-> <<0, 1>>]

\* loadHairCare: the instruction area with its prompt.  The #hairCareProgress
\* bar exists while content = "step"; progressWidth is its width in percent.
FreshHairCareInstructions ==
    [exists |-> TRUE, content |-> "choose", progressWidth |-> 0]

\* switchActivity, with loadActivityPanel and the panel loader it calls.
\* The old panel's elements are discarded: a pending dismissal timer keeps
\* its reference to the discarded instruction area.
SwitchActivityTo(s, activityId) ==
    [s EXCEPT !.gameState = [@ EXCEPT !.currentActivity = activityId],
              !.stylingInstructions =
                  IF activityId = "hair-styling" THEN FreshStylingInstructions
                  ELSE NoStylingInstructions,
              !.hairCareInstructions =
                  IF activityId = "hair-care" THEN FreshHairCareInstructions
                  ELSE NoHairCareInstructions,
              !.dismissTimers = [i \in DOMAIN @ |-> FALSE]]


-----------------------------------------------------------------------------
(* The hair group of the scene *)

\* position of the element with id hairGroup among the svg's children, 0 if
\* the last render did not get as far as the hair
HairIdx(children) ==
    IF \E i \in DOMAIN children : children[i].layer = "hair"
    THEN CHOOSE i \in DOMAIN children : children[i].layer = "hair"
    ELSE 0

HasHairGroup(s) == HairIdx(s.svg) # 0
HairGroup(s) == s.svg[HairIdx(s.svg)]

\* the group holds the placeholder regions of createHairSections
HasSections(s) == HasHairGroup(s) /\ HairGroup(s).generator = "createHairSections"

\* a placeholder rect as createHairSections creates it: dashed, semi-transparent
UnstyledSection == [opacity |-> "0.7", dasharray |-> "5,5"]

-----------------------------------------------------------------------------
(* Hair care (hair-care.js 1-172) *)

\* enableHairInteraction
EnableHairInteraction(s) ==
    IF ~HasHairGroup(s) THEN s
    ELSE [s EXCEPT !.svg[HairIdx(s.svg)].onclick = TRUE]

\* startHairCareStep without the reset of careClicks
StartHairCareStepKeepsClicks(s, stepId) ==
    LET s1 == [s EXCEPT !.currentHairCareStep = stepId] IN
    IF ~s1.hairCareInstructions.exists THEN s1
    ELSE EnableHairInteraction(
            [s1 EXCEPT !.hairCareInstructions =
                [exists |-> TRUE, content |-> "step", progressWidth |-> 0]])

\* startHairCareStep(stepId, stepName)
StartHairCareStepOn(s, stepId) ==
    LET s1 == [s EXCEPT !.currentHairCareStep = stepId, !.careClicks = 0] IN
    IF ~s1.hairCareInstructions.exists THEN s1
    ELSE EnableHairInteraction(
            [s1 EXCEPT !.hairCareInstructions =
                [exists |-> TRUE, content |-> "step", progressWidth |-> 0]])

\* completeHairCareStep
CompleteHairCareStep(s) ==
    IF ~s.hairCareInstructions.exists THEN s
    ELSE LET s1 == [s EXCEPT !.hairCareInstructions =
                        [exists |-> TRUE, content |-> "complete", progressWidth |-> 0]]
             s2 == IF HasHairGroup(s1)
                   THEN [s1 EXCEPT !.svg[HairIdx(s1.svg)].onclick = FALSE]
                   ELSE s1
             s3 == [s2 EXCEPT !.currentHairCareStep = NULL]
         IN  UpdateState(s3, <<"character", "hair", "moisture">>, 100)

\* handleHairCareClick(e), with addSparkleEffect
HandleHairCareClick(s) ==
    IF s.currentHairCareStep = NULL THEN s
    ELSE LET n  == s.careClicks + 1
             s1 == [s EXCEPT !.careClicks = n]
             s2 == IF s1.hairCareInstructions.content = "step"
                   THEN [s1 EXCEPT !.hairCareInstructions.progressWidth =
                            Min((n * 100) \div CLICKS_NEEDED, 100)]
                   ELSE s1
             s3 == [s2 EXCEPT !.sparkles = @ + 1]
         IN  IF n >= CLICKS_NEEDED THEN CompleteHairCareStep(s3) ELSE s3

-----------------------------------------------------------------------------
(* Interactive styling (hair-system.js 487-750) *)

\* createHairSections(count)
CreateHairSections(s, count) ==
    IF ~HasHairGroup(s) THEN s
    ELSE [s EXCEPT !.svg[HairIdx(s.svg)] =
                [ layer     |-> "hair",
                  onclick   |-> @.onclick,
                  generator |-> "createHairSections",
                  texture   |-> NULL,
                  color     |-> s.gameState.character.hair.color,
                  sections  |-> [i \in 1..count |-> UnstyledSection],
                  shapes    |-> << >> ]]

\* startInteractiveStyling without the reset of completedSections
StartInteractiveStylingKeepsCompleted(s, styleId) ==
    LET s1 == [s EXCEPT !.currentStyling = styleId] IN
    IF ~s1.stylingInstructions.exists THEN s1
    ELSE CreateHairSections(
            [s1 EXCEPT !.stylingInstructions =
                [exists |-> TRUE, display |-> "block", content |-> "progress",
                 sectionsComplete |-> 0, progressWidth |-> <<0, 1>>]],
            Sections(styleId))

\* startInteractiveStyling(styleId, style)
StartInteractiveStyling(s, styleId) ==
    LET s1 == [s EXCEPT !.currentStyling = styleId, !.completedSections = << >>] IN
    IF ~s1.stylingInstructions.exists THEN s1
    ELSE CreateHairSections(
            [s1 EXCEPT !.stylingInstructions =
                [exists |-> TRUE, display |-> "block", content |-> "progress",
                 sectionsComplete |-> 0, progressWidth |-> <<0, 1>>]],
            Sections(styleId))

\* selectHairstyle with every style applied at once
SelectHairstyleAllInstant(s, styleId) ==
    UpdateState(s, <<"character", "hair", "style">>, styleId)

\* selectHairstyle(styleId, style)
SelectHairstyleOn(s, styleId) ==
    IF hairstyles[styleId].interactive
    THEN StartInteractiveStyling(s, styleId)
    ELSE UpdateState(s, <<"character", "hair", "style">>, styleId)

\* completeStyling.  When the re-render throws, the exception leaves
\* completeStyling before setTimeout is reached.
CompleteStyling(s) ==
    IF ~s.stylingInstructions.exists THEN s
    ELSE LET s1 == [s EXCEPT !.stylingInstructions =
                        [exists |-> TRUE, display |-> @.display, content |-> "success",
                         sectionsComplete |-> 0, progressWidth |-> <<0, 1>>]]
             s2 == UpdateState(s1, <<"character", "hair", "style">>, s1.currentStyling)
         IN  IF s2.threw THEN s2
             ELSE [s2 EXCEPT !.dismissTimers = Append(@, TRUE)]

\* section.includes(sectionIndex) on the array
Includes(arr, x) == \E k \in DOMAIN arr : arr[k] = x

\* a placeholder rect after styleSection: solid border, full opacity
StyledSection == [opacity |-> "1", dasharray |-> "0"]

\* styleSection with the read-out written from the length before the push
MarkSectionStaleCount(s, sectionIndex) ==
         LET h  == HairIdx(s.svg)
             s1 == [s EXCEPT
                      !.completedSections = Append(@, sectionIndex),
                      !.svg[h].sections[sectionIndex + 1] = StyledSection]
         IN  IF s1.currentStyling = NULL THEN [s1 EXCEPT !.threw = TRUE]
             ELSE LET total == Sections(s1.currentStyling)
                      done  == Len(s1.completedSections)
                      s2 == IF s1.stylingInstructions.content = "progress"
                            THEN [s1 EXCEPT
                                    !.stylingInstructions.progressWidth = <<done * 100, total>>,
                                    !.stylingInstructions.sectionsComplete = done - 1]
                            ELSE s1
                  IN  IF done = total THEN CompleteStyling(s2) ELSE s2

\* styleSection(sectionIndex, sectionElement) past its first line; the
\* element is child sectionIndex of the current hair group.  With no session
\* (currentStyling null) reading currentStyling.style throws after the
\* section has been marked.  The 100 ms bounce of the rect (y + 10 and back,
\* lines 696-701) changes only the rect's y, which the scene of this model
\* does not carry.
MarkSection(s, sectionIndex) ==
         LET h  == HairIdx(s.svg)
             s1 == [s EXCEPT
                      !.completedSections = Append(@, sectionIndex),
                      !.svg[h].sections[sectionIndex + 1] = StyledSection]
         IN  IF s1.currentStyling = NULL THEN [s1 EXCEPT !.threw = TRUE]
             ELSE LET total == Sections(s1.currentStyling)
                      done  == Len(s1.completedSections)
                      s2 == IF s1.stylingInstructions.content = "progress"
                            THEN [s1 EXCEPT
                                    !.stylingInstructions.progressWidth = <<done * 100, total>>,
                                    !.stylingInstructions.sectionsComplete = done]
                            ELSE s1
                  IN  IF done = total THEN CompleteStyling(s2) ELSE s2

\* styleSection without the test for a section styled before
StyleSectionAgain(s, sectionIndex) == MarkSection(s, sectionIndex)

\* styleSection(sectionIndex, sectionElement)
StyleSection(s, sectionIndex) ==
    IF Includes(s.completedSections, sectionIndex) THEN s
    ELSE MarkSection(s, sectionIndex)

\* the 2 s timer of completeStyling; attached says whether the instruction
\* area it captured is still the one in the document
DismissOverlay(s) ==
    LET attached == Head(s.dismissTimers) IN
    [s EXCEPT !.stylingInstructions =
                  IF attached THEN [@ EXCEPT !.display = "none"] ELSE @,
              !.currentStyling = NULL,
              !.dismissTimers = Tail(@)]

-----------------------------------------------------------------------------
(* Actions *)

\* the program state when the scripts have loaded, before the first render
Loaded(character, target) ==
    [ gameState |-> [character |-> character, currentActivity |-> NULL],
      svg |-> << >>, currentStyling |-> NULL,
      completedSections |-> << >>, currentHairCareStep |-> NULL,
      careClicks |-> 0, stylingInstructions |-> NoStylingInstructions,
      hairCareInstructions |-> NoHairCareInstructions,
      dismissTimers |-> << >>, sparkles |-> 0, threw |-> FALSE,
      mounted |-> target, exports |-> << >>, saveMessages |-> << >>,
      colorArg |-> << >>, percentArg |-> 0,
      colorResult |-> [helper |-> NULL, value |-> << >>], random |-> << >> ]

\* the variables hold the program state t
Holds(t) ==
    /\ gameState = t.gameState
    /\ svg = t.svg
    /\ currentStyling = t.currentStyling
    /\ completedSections = t.completedSections
    /\ currentHairCareStep = t.currentHairCareStep
    /\ careClicks = t.careClicks
    /\ stylingInstructions = t.stylingInstructions
    /\ hairCareInstructions = t.hairCareInstructions
    /\ dismissTimers = t.dismissTimers
    /\ sparkles = t.sparkles
    /\ threw = t.threw
    /\ mounted = t.mounted
    /\ exports = t.exports
    /\ saveMessages = t.saveMessages
    /\ colorArg = t.colorArg
    /\ percentArg = t.percentArg
    /\ colorResult = t.colorResult
    /\ random = t.random

\* DOMContentLoaded: the first render of the initial gameState
Init == Holds(RenderCharacter(Loaded(InitGameState.character, TRUE)))

\* a click on a button of the activity menu
SwitchActivity ==
    \E a \in OpenedActivities : Becomes(SwitchActivityTo(Cur, a))

\* a click on an option button of the character-creation, dress-up, nails or
\* makeup panel
PanelWrite ==
    \E w \in PanelWrites :
        /\ gameState.currentActivity = w[1]
        /\ Becomes(UpdateState(Cur, w[2], w[3]))

\* the indices a placeholder region can have
SectionIndices == 0..(MaxSections - 1)

\* a click on a style card of the hair-styling panel
SelectHairstyleCard(styleId) ==
    /\ gameState.currentActivity = "hair-styling"
    /\ Becomes(SelectHairstyleOn(Cur, styleId))

SelectHairstyle == \E styleId \in OfferedStyles : SelectHairstyleCard(styleId)

\* a click on placeholder region i: its listener runs styleSection, then the
\* event bubbles to the hair group it was dispatched through, whose onclick
\* (if hair care set one) runs handleHairCareClick
SectionClick(i) ==
    /\ HasSections(Cur)
    /\ i + 1 \in DOMAIN HairGroup(Cur).sections
    /\ LET s1 == StyleSection(Cur, i) IN
       Becomes(IF HairGroup(Cur).onclick THEN HandleHairCareClick(s1) ELSE s1)

\* a click on the rendered hair: it bubbles to the hair group's onclick
HairClick ==
    /\ HasHairGroup(Cur)
    /\ ~HasSections(Cur)
    /\ Becomes(IF HairGroup(Cur).onclick THEN HandleHairCareClick(Cur) ELSE Cur)

\* a click on a step button of the hair-care panel
StartHairCareStepButton(stepId) ==
    /\ gameState.currentActivity = "hair-care"
    /\ Becomes(StartHairCareStepOn(Cur, stepId))

StartHairCareStep == \E stepId \in StartedSteps : StartHairCareStepButton(stepId)

\* timer callbacks
DismissTimer ==
    /\ dismissTimers # << >>
    /\ Becomes(DismissOverlay(Cur))

SparkleTimer ==
    /\ sparkles > 0
    /\ Becomes([Cur EXCEPT !.sparkles = @ - 1])

Next ==
    \/ SwitchActivity
    \/ PanelWrite
    \/ SelectHairstyle
    \/ \E i \in SectionIndices : SectionClick(i)
    \/ HairClick
    \/ StartHairCareStep
    \/ DismissTimer
    \/ SparkleTimer

Spec == Init /\ [][Next]_vars

-----------------------------------------------------------------------------
(* The renderer on its own: renderCharacter and updateState applied to       *)
(* character attributes drawn from the catalogues, with one style and one    *)
(* texture key outside them, and with or without the #character element.     *)

\* a style the dispatcher does not know, a key the texture table does not have
UnknownStyle == "mohawk"
UnknownTexture == "2a"

RenderStyles == StyleIds \cup {UnknownStyle}
RenderTextures == hairTextures \cup {UnknownTexture}
\* state.js outfits.tops: a t-shirt and the two dresses; outfits.bottoms: all
RenderTops == {"tshirt-pink", "dress-red", "dress-green"}
RenderBottoms == {"jeans", "skirt-pink", "skirt-purple", "shorts-blue"}
\* part_001 eyeshadowColors: the sentinel and two colours
RenderEyeshadows == {"none", "#8B4513", "#FFD700"}

\* the character attributes drawn
RenderInputs ==
    { [InitGameState.character EXCEPT
          !.hair.style = st, !.hair.texture = tx,
          !.outfit.top = top, !.outfit.bottom = bottom,
          !.makeup.eyeshadow = shadow] :
        st \in RenderStyles, tx \in RenderTextures, top \in RenderTops,
        bottom \in RenderBottoms, shadow \in RenderEyeshadows }

\* the writes made through updateState: [path, value]
RenderWrites ==
    { [path |-> <<"character", "makeup", "eyeshadow">>, value |-> v] : v \in RenderEyeshadows }
    \cup { [path |-> <<"character", "outfit", "top">>, value |-> v] : v \in RenderTops }
    \cup { [path |-> <<"character", "nails", "color">>, value |-> "#E74C3C"] }

RenderInit ==
    \E character \in RenderInputs, target \in BOOLEAN :
        Holds(Loaded(character, target))

\* the values Math.random() returns, as far as the model tells them apart
RandomDraws == {0, 1}

\* program state s with Math.random() returning r to the render that
\* starts; the draw of the render before is kept beside it.  A render that
\* returns at once for want of the #character element draws nothing.
Drawing(s, r) ==
    IF ~s.mounted THEN s
    ELSE [s EXCEPT !.random = IF @ = << >> THEN << r >> ELSE << @[Len(@)], r >>]

\* renderCharacter()
RenderCall == \E r \in RandomDraws : Becomes(RenderCharacter(Drawing(Cur, r)))

\* updateState(w.path, w.value)
StoreWriteOf(w) ==
    \E r \in RandomDraws : Becomes(UpdateState(Drawing(Cur, r), w.path, w.value))

StoreWrite == \E w \in RenderWrites : StoreWriteOf(w)

RenderNext == RenderCall \/ StoreWrite

RenderSpec == RenderInit /\ [][RenderNext]_vars

-----------------------------------------------------------------------------
(* The raster export (app.js saveCharacter, showSaveMessage) *)

\* a temporary object URL nobody has revoked
LIVE == "live"

\* saveCharacter(): nothing without the #character element; otherwise the svg
\* is serialised, an object URL is created for its blob and the image starts
\* loading from it
SaveCharacter(s) ==
    IF ~s.mounted THEN s
    ELSE [s EXCEPT !.exports =
            Append(@, [phase |-> "loading", svgUrl |-> LIVE, pngUrl |-> "none"])]

\* img.onload of export k: the image is drawn, the svg URL revoked and
\* canvas.toBlob started
ImgOnload(s, k) ==
    [s EXCEPT !.exports[k] = [@ EXCEPT !.phase = "encoding", !.svgUrl = "revoked"]]

\* showSaveMessage(): the message element and its 2 s timer
ShowSaveMessage(s) == [s EXCEPT !.saveMessages = Append(@, "shown")]

\* the toBlob callback of export k with a PNG blob: an object URL is created
\* for the link, the link clicked and the message shown
ToBlobCallback(s, k) ==
    ShowSaveMessage(
        [s EXCEPT !.exports[k] = [@ EXCEPT !.phase = "downloaded", !.pngUrl = LIVE]])

\* the toBlob callback of export k with null (the canvas could not be
\* encoded): URL.createObjectURL(null) throws
ToBlobCallbackNull(s, k) ==
    [s EXCEPT !.exports[k] = [@ EXCEPT !.phase = "blobFailed"], !.threw = TRUE]

\* the phases after which no callback of the export is pending
TerminalPhases == {"downloaded", "decodeFailed", "blobFailed"}

\* exports started in one run
MaxExports == 3

\* a click on the save button
SaveClick ==
    /\ Len(exports) < MaxExports
    /\ Becomes(SaveCharacter(Cur))

\* the image of export k has been decoded
ImageLoaded ==
    \E k \in DOMAIN exports :
        /\ exports[k].phase = "loading"
        /\ Becomes(ImgOnload(Cur, k))

\* the image of export k cannot be decoded: the error event has no listener
ImageFailed ==
    \E k \in DOMAIN exports :
        /\ exports[k].phase = "loading"
        /\ Becomes([Cur EXCEPT !.exports[k].phase = "decodeFailed"])

\* canvas.toBlob of export k calls back with the blob
BlobReady ==
    \E k \in DOMAIN exports :
        /\ exports[k].phase = "encoding"
        /\ Becomes(ToBlobCallback(Cur, k))

\* canvas.toBlob of export k calls back with null
BlobFailed ==
    \E k \in DOMAIN exports :
        /\ exports[k].phase = "encoding"
        /\ Becomes(ToBlobCallbackNull(Cur, k))

\* the 2 s timer of the oldest message still shown: it starts to fade
FadeTimer ==
    \E k \in DOMAIN saveMessages :
        /\ saveMessages[k] = "shown"
        /\ \A j \in 1..(k - 1) : saveMessages[j] # "shown"
        /\ Becomes([Cur EXCEPT !.saveMessages[k] = "fading"])

\* the 0.5 s timer of the oldest fading message: it is removed
RemoveTimer ==
    /\ saveMessages # << >>
    /\ Head(saveMessages) = "fading"
    /\ Becomes([Cur EXCEPT !.saveMessages = Tail(@)])

ExportNext ==
    \/ SaveClick
    \/ ImageLoaded
    \/ ImageFailed
    \/ BlobReady
    \/ BlobFailed
    \/ FadeTimer
    \/ RemoveTimer

ExportSpec == Init /\ [][ExportNext]_vars

-----------------------------------------------------------------------------
(* The colour helpers (character-renderer.js lightenColor, darkenColor),     *)
(* applied to hex strings of the catalogues and to percents in 0..100.       *)
(* A string is the sequence of its characters.                               *)

\* the digits Number.prototype.toString(16) writes, by value + 1
HexDigits == << "0", "1", "2", "3", "4", "5", "6", "7", "8", "9",
                "a", "b", "c", "d", "e", "f" >>

\* the digits parseInt(_, 16) reads beside them
UpperHexDigits == << "0", "1", "2", "3", "4", "5", "6", "7", "8", "9",
                     "A", "B", "C", "D", "E", "F" >>

IsHexDigit(ch) ==
    \E v \in 1..16 : HexDigits[v] = ch \/ UpperHexDigits[v] = ch

HexValue(ch) ==
    (CHOOSE v \in 1..16 : HexDigits[v] = ch \/ UpperHexDigits[v] = ch) - 1

\* color.replace("#", ""): the first "#" removed
ReplaceHash(str) ==
    IF \E i \in DOMAIN str : str[i] = "#"
    THEN LET i == CHOOSE k \in DOMAIN str :
                     str[k] = "#" /\ \A j \in 1..(k - 1) : str[j] # "#"
         IN  SubSeq(str, 1, i - 1) \o SubSeq(str, i + 1, Len(str))
    ELSE str

\* parseInt(str, 16) on a string that starts with a hex digit: the value of
\* the longest prefix of hex digits
RECURSIVE ParseIntFrom(_, _)
ParseIntFrom(str, acc) ==
    IF str = << >> \/ ~IsHexDigit(Head(str)) THEN acc
    ELSE ParseIntFrom(Tail(str), 16 * acc + HexValue(Head(str)))

ParseInt16(str) == ParseIntFrom(str, 0)

\* n.toString(16) for n > 0
RECURSIVE ToString16(_)
ToString16(n) ==
    IF n < 16 THEN << HexDigits[n + 1] >>
    ELSE Append(ToString16(n \div 16), HexDigits[(n % 16) + 1])

\* the percents at which the double product 2.55 * percent lies just below
\* a half that the exact product reaches (127.49999999999999 and
\* 229.49999999999997), so that Math.round rounds down
RoundsBelowHalf == {50, 90}

\* Math.round(2.55 * percent) in double arithmetic, percent an integer 0..100
Amt(percent) ==
    IF percent \in RoundsBelowHalf
    THEN (255 * percent) \div 100
    ELSE (255 * percent + 50) \div 100

Max(a, b) == IF a > b THEN a ELSE b

\* num >> 8 without the mask
GreenOfUnmasked(num) == num \div 256

\* num >> 16, num >> 8 & 0x00FF, num & 0x0000FF
RedOf(num) == num \div 65536
GreenOf(num) == (num \div 256) % 256
BlueOf(num) == num % 256

\* the formatting without the 0x1000000 that keeps the leading zeros
FormatHexUnpadded(R, G, B) ==
    << "#" >> \o ToString16(R * 65536 + G * 256 + B)

\* "#" + (0x1000000 + R * 0x10000 + G * 0x100 + B).toString(16).slice(1)
FormatHex(R, G, B) ==
    << "#" >> \o Tail(ToString16(16777216 + R * 65536 + G * 256 + B))

\* lightenColor(color, percent)
LightenColor(color, percent) ==
    LET num == ParseInt16(ReplaceHash(color))
        amt == Amt(percent)
    IN  FormatHex(Min(255, RedOf(num) + amt), Min(255, GreenOf(num) + amt),
                  Min(255, BlueOf(num) + amt))

\* darkenColor(color, percent)
DarkenColor(color, percent) ==
    LET num == ParseInt16(ReplaceHash(color))
        amt == Amt(percent)
    IN  FormatHex(Max(0, RedOf(num) - amt), Max(0, GreenOf(num) - amt),
                  Max(0, BlueOf(num) - amt))

\* hex strings of the catalogues (skin, hair, outfit, nail and makeup
\* colours), and two written in lower case
ColorInputs ==
    { << "#", "F", "F", "6", "9", "B", "4" >>,
      << "#", "1", "A", "1", "A", "1", "A" >>,
      << "#", "0", "0", "0", "0", "0", "0" >>,
      << "#", "F", "F", "F", "F", "F", "F" >>,
      << "#", "2", "C", "3", "E", "5", "0" >>,
      << "#", "8", "D", "5", "5", "2", "4" >>,
      << "#", "8", "0", "8", "0", "8", "0" >>,
      << "#", "0", "9", "a", "f", "0", "3" >>,
      << "#", "f", "f", "d", "7", "0", "0" >> }

\* percents: none, two the renderer passes (15, 20), one that clamps the
\* darker catalogue colours (30), the two of RoundsBelowHalf, all
Percents == {0, 15, 20, 30, 50, 90, 100}

ColorInit ==
    \E c \in ColorInputs, p \in Percents :
        Holds([Loaded(InitGameState.character, TRUE) EXCEPT
                  !.colorArg = c, !.percentArg = p])

\* lightenColor(colorArg, percentArg)
LightenCall ==
    Becomes([Cur EXCEPT !.colorResult =
                [helper |-> "lightenColor", value |-> LightenColor(colorArg, percentArg)]])

\* darkenColor(colorArg, percentArg)
DarkenCall ==
    Becomes([Cur EXCEPT !.colorResult =
                [helper |-> "darkenColor", value |-> DarkenColor(colorArg, percentArg)]])

ColorNext == LightenCall \/ DarkenCall

ColorSpec == ColorInit /\ [][ColorNext]_vars

-----------------------------------------------------------------------------
(* Claims *)

hairStyle == gameState.character.hair.style
hairStyleNext == gameState'.character.hair.style
currentActivity == gameState.currentActivity

\* the step is a click on the hair (rendered hair or a placeholder) that the
\* hair group's onclick handles
HandledHairClick ==
    /\ HasHairGroup(Cur)
    /\ HairGroup(Cur).onclick
    /\ (HairClick \/ \E i \in SectionIndices : SectionClick(i))

\* the step is the click that brings an active session's completed sections
\* to the session's total
CompletingClick ==
    /\ currentStyling # NULL
    /\ \E i \in SectionIndices : SectionClick(i)
    /\ Len(completedSections) < Sections(currentStyling)
    /\ Len(completedSections') = Sections(currentStyling)

\* C1: once a session has been started and the last of its distinct sections
\* is clicked, whatever was interleaved, hair.style is the session's style.
C1_AllSectionsCommitStyle ==
    [][CompletingClick => hairStyleNext = currentStyling]_vars

\* C2: a click on a section that is already in the completed set leaves the
\* completed set, the counter and progress bar, the session and hair.style
\* as they were.
C2_RepeatClickIsNoOp ==
    [][\A i \in SectionIndices :
          (SectionClick(i) /\ Includes(completedSections, i)) =>
              /\ completedSections' = completedSections
              /\ stylingInstructions' = stylingInstructions
              /\ currentStyling' = currentStyling
              /\ hairStyleNext = hairStyle]_vars

\* C2 witness: a placeholder on screen whose index is already completed
C2_Witness ==
    /\ HasSections(Cur)
    /\ \E k \in DOMAIN completedSections :
          /\ completedSections[k] + 1 \in DOMAIN HairGroup(Cur).sections
          /\ HairGroup(Cur).sections[completedSections[k] + 1] = StyledSection

\* C3: hair.style is set to an interactive style only by the completing click
\* of a session of that style, and every completing click sets it.
C3_CommitExactlyAtTotal ==
    [][/\ (hairStyleNext # hairStyle /\ hairStyleNext \in InteractiveIds) =>
              (CompletingClick /\ hairStyleNext = currentStyling)
       /\ CompletingClick => hairStyleNext = currentStyling]_vars

\* C4: selecting an interactive style starts a session with nothing
\* completed and puts exactly the style's placeholder regions, all unstyled,
\* in the hair layer.
C4_SelectionCreatesPlaceholders ==
    [][\A styleId \in InteractiveIds :
          SelectHairstyleCard(styleId) =>
              /\ currentStyling' = styleId
              /\ completedSections' = << >>
              /\ HairIdx(svg') # 0
              /\ svg'[HairIdx(svg')].generator = "createHairSections"
              /\ svg'[HairIdx(svg')].sections =
                     [k \in 1..Sections(styleId) |-> UnstyledSection]]_vars

\* C5: in an active session a click on region i not yet completed appends i
\* to the completed set; the placeholders that remain on screen differ from
\* before in region i alone, which is styled; the counter on screen shows the
\* size of the completed set.
C5_ClickStylesSection ==
    [][\A i \in SectionIndices :
          (SectionClick(i) /\ currentStyling # NULL /\ ~Includes(completedSections, i)) =>
              /\ completedSections' = Append(completedSections, i)
              /\ (HairIdx(svg') # 0 /\ svg'[HairIdx(svg')].generator = "createHairSections") =>
                     svg'[HairIdx(svg')].sections =
                         [HairGroup(Cur).sections EXCEPT ![i + 1] = StyledSection]
              /\ stylingInstructions'.content = "progress" =>
                     stylingInstructions'.sectionsComplete = Len(completedSections')]_vars

\* C5 witness: an active session with a styled region and the counter showing it
C5_Witness ==
    /\ HasSections(Cur)
    /\ currentStyling # NULL
    /\ Len(completedSections) = 1
    /\ HairGroup(Cur).sections[completedSections[1] + 1] = StyledSection
    /\ stylingInstructions.content = "progress"
    /\ stylingInstructions.sectionsComplete = 1

\* C6: no session record remains once the user is in another activity.
C6_NoSessionInOtherActivity ==
    currentActivity \notin {NULL, "hair-styling"} => currentStyling = NULL

\* the hair-care machine is Counting: a step is active
Counting == currentHairCareStep # NULL

\* C7: starting a step makes it the active step with the counter at 0; while
\* a step is active, a click on the hair that is not the 5th adds one and
\* leaves the step active; the 5th ends it: no active step, moisture 100.
C7_FifthClickCompletes ==
    [][/\ \A stepId \in steps :
              StartHairCareStepButton(stepId) =>
                  /\ currentHairCareStep' = stepId
                  /\ careClicks' = 0
       /\ (HandledHairClick /\ Counting) =>
              /\ careClicks' = careClicks + 1
              /\ IF careClicks' < CLICKS_NEEDED
                 THEN currentHairCareStep' = currentHairCareStep
                 ELSE /\ currentHairCareStep' = NULL
                      /\ gameState'.character.hair.moisture = 100]_vars

\* C8: a timer callback changes no logic state.
C8_TimersChangeNoLogic ==
    [][(DismissTimer \/ SparkleTimer) =>
          UNCHANGED <<gameState, currentStyling, completedSections,
                      currentHairCareStep, careClicks>>]_vars

\* C9: once the user has navigated away from the activity of a session, the
\* click handlers that session installed no longer change its state.
C9_NoHandlerAfterNavigation ==
    [][/\ (currentActivity # "hair-styling" /\ gameState'.currentActivity = currentActivity) =>
              completedSections' = completedSections
       /\ (currentActivity # "hair-care" /\ gameState'.currentActivity = currentActivity) =>
              careClicks' = careClicks]_vars

\* C10: after a write to the store the scene is a complete fresh render of
\* the attributes as written.
C10_WriteThenFullRender ==
    [][gameState'.character # gameState.character =>
          svg' = FullScene(gameState'.character, MathRandom(Cur))]_vars

\* position of a layer in the back-to-front order: body and limbs, neck,
\* head, facial features, hair, outfit, nails (the defs element draws nothing)
DrawRank(layer) ==
    CASE layer = "defs"                     -> 0
      [] layer \in {"body", "arms", "legs"} -> 1
      [] layer = "neck"                     -> 2
      [] layer = "head"                     -> 3
      [] layer = "face"                     -> 4
      [] layer = "hair"                     -> 5
      [] layer = "outfit"                   -> 6
      [] layer = "nails"                    -> 7

\* C11: in every scene the shapes of an earlier layer of the order body and
\* limbs, neck, head, facial features, hair, outfit, nails come before the
\* shapes of a later layer: the layers present are the first layers of that
\* order, each once, in that order.
C11_LayersBackToFront ==
    /\ \A j, k \in DOMAIN svg :
          j < k => DrawRank(svg[j].layer) <= DrawRank(svg[k].layer)
    /\ Len(svg) <= 10
    /\ [k \in DOMAIN svg |-> DrawRank(svg[k].layer)]
          = SubSeq(<<0, 1, 1, 1, 2, 3, 4, 5, 6, 7>>, 1, Len(svg))

\* C11 witness: a finished scene of a dress over a skirt with eyeshadow
C11_Witness ==
    /\ Len(svg) = 10
    /\ svg[8].layer = "hair" /\ svg[9].layer = "outfit" /\ svg[10].layer = "nails"
    /\ gameState.character.makeup.eyeshadow = "#FFD700"
    /\ gameState.character.outfit.top = "dress-green"

\* C12: the defs element is created once per render and before every render
\* function: it is the first child of the scene and the only defs in it.
C12_DefsOnceAndFirst ==
    svg # << >> =>
        /\ svg[1].layer = "defs"
        /\ \A k \in DOMAIN svg : k > 1 => svg[k].layer # "defs"

\* C12 witness: a scene in which render functions that use the defs have run
C12_Witness ==
    /\ Len(svg) >= 7
    /\ svg[2].layer = "body"
    /\ svg[7].layer = "face"
    /\ gameState.character.hair.style = "cornrows"

\* C13: without the #character element a render call changes nothing and
\* raises no error, and a write to the store stores its value, changes
\* nothing else and raises no error.
C13_MissingTargetIsNoOp ==
    [][~mounted =>
          /\ RenderCall => (UNCHANGED vars /\ ~threw')
          /\ \A w \in RenderWrites :
                StoreWriteOf(w) =>
                    /\ GetPath(gameState', w.path) = w.value
                    /\ gameState' = SetPath(gameState, w.path, w.value)
                    /\ svg' = svg
                    /\ ~threw']_vars

\* C13 witness: the nail colour written while the element is missing
C13_Witness ==
    /\ ~mounted
    /\ gameState.character.nails.color = "#E74C3C"
    /\ svg = << >>
    /\ ~threw

hairTextureAttr == gameState.character.hair.texture

\* the scene renderCharacter leaves for the attributes of this state with the
\* hair style replaced by st
SceneWithStyle(st) ==
    RenderCharacter([Cur EXCEPT !.gameState.character.hair.style = st,
                                !.random = random']).svg

\* C14: a render with a style that is not one of the seven known styles
\* raises no error and leaves the scene a render with style afro leaves for
\* the same color and texture, hair shapes included.
C14_UnknownStyleIsAfro ==
    [][(RenderCall /\ mounted /\ hairStyle \notin StyleIds) =>
          /\ ~threw'
          /\ svg' = SceneWithStyle("afro")
          /\ HairIdx(svg') # 0]_vars

\* C15: a render with a texture key that is not in the texture table ends in
\* an error and leaves no finished scene, whatever the hairstyle.
C15_BadTextureIsFatal ==
    [][(RenderCall /\ mounted /\ hairTextureAttr \notin hairTextures) =>
          /\ threw'
          /\ svg' # FullScene(gameState.character, MathRandom(Cur))]_vars

\* C16: hair.texture is always a key of the texture table and hair.style is
\* always one of the seven styles of the dispatcher.
C16_TextureAndStyleInEnum ==
    /\ gameState.character.hair.texture \in hairTextures
    /\ gameState.character.hair.style \in StyleIds

\* C16 witness: a texture picked in character creation and a style committed
\* by an interactive session
C16_Witness ==
    /\ gameState.character.hair.texture = "3a"
    /\ gameState.character.hair.style = "cornrows"
    /\ Len(completedSections) = Sections("cornrows")

\* C17: an export that has reached a terminal state (downloaded, image not
\* decodable, canvas not encodable) has left none of the object URLs it
\* created unrevoked.
C17_ExportReleasesURLs ==
    \A k \in DOMAIN exports :
        exports[k].phase \in TerminalPhases =>
            /\ exports[k].svgUrl # LIVE
            /\ exports[k].pngUrl # LIVE

\* the layer of the scene with the given name, as a set (empty if the scene
\* has none)
LayerNamed(name) == {svg[k] : k \in {j \in DOMAIN svg : svg[j].layer = name}}

\* the names of the shapes of a layer, and the shapes with a given name
NamesIn(l) == {l.shapes[k].name : k \in DOMAIN l.shapes}
ShapesNamed(l, name) == {k \in DOMAIN l.shapes : l.shapes[k].name = name}

BottomGarmentNames == {"leftPantLeg", "rightPantLeg", "skirt"}

\* C18: whenever the outfit has been rendered for a top whose id contains
\* "dress", whatever the bottom, the outfit has no pant leg and no skirt, and
\* has one dress skirt in the colour of the top.
C18_DressSuppressesBottom ==
    \A l \in LayerNamed("outfit") :
        /\ l.outfit = gameState.character.outfit
        /\ IdIncludes(gameState.character.outfit.top, "dress") =>
              /\ NamesIn(l) \cap BottomGarmentNames = {}
              /\ Cardinality(ShapesNamed(l, "dressSkirt")) = 1
              /\ \A k \in ShapesNamed(l, "dressSkirt") :
                    l.shapes[k].fill = gameState.character.outfit.top
              /\ l.shapes[1].name = "top"

\* C18 witness: a rendered outfit of the red dress over jeans
C18_Witness ==
    \E l \in LayerNamed("outfit") :
        /\ l.outfit.top = "dress-red"
        /\ l.outfit.bottom = "jeans"
        /\ "dressSkirt" \in NamesIn(l)

EyeshadowNames == {"leftEyeshadow", "rightEyeshadow"}

\* C19: the facial layer has eyeshadow shapes exactly when makeup.eyeshadow
\* is not "none": none with "none", and with a colour the left and the right
\* one, both filled with that colour.
C19_EyeshadowIffNotNone ==
    \A l \in LayerNamed("face") :
        /\ l.makeup = gameState.character.makeup
        /\ IF gameState.character.makeup.eyeshadow = "none"
           THEN NamesIn(l) \cap EyeshadowNames = {}
           ELSE /\ EyeshadowNames \subseteq NamesIn(l)
                /\ \A k \in DOMAIN l.shapes :
                      l.shapes[k].name \in EyeshadowNames =>
                          l.shapes[k].fill = gameState.character.makeup.eyeshadow

\* C19 witness: a face rendered with gold eyeshadow
C19_Witness ==
    \E l \in LayerNamed("face") :
        /\ gameState.character.makeup.eyeshadow = "#FFD700"
        /\ "leftEyeshadow" \in NamesIn(l)

\* the texture keys from the tightest coil to the loosest
TextureOrder == <<"4c", "4b", "4a", "3c", "3b", "3a">>

\* C20: a render with style afro and a key of the texture table puts in the
\* hair group exactly floor(15 * coilTightness) detail circles and exactly
\* one base ellipse, and the number of detail circles decreases strictly
\* from 4C to 3A.
C20_AfroCircleCount ==
    [][(RenderCall /\ mounted /\ hairStyle = "afro" /\ hairTextureAttr \in hairTextures) =>
          /\ HairIdx(svg') # 0
          /\ LET hair == svg'[HairIdx(svg')] IN
                /\ Cardinality(ShapesNamed(hair, "coil")) = CoilCount(hairTextureAttr)
                /\ Cardinality(ShapesNamed(hair, "afroBase")) = 1
          /\ \A i \in 1..5 : CoilCount(TextureOrder[i]) > CoilCount(TextureOrder[i + 1])]_vars

\* the character in lower case
LowerCase(ch) ==
    IF \E v \in 1..16 : UpperHexDigits[v] = ch
    THEN HexDigits[CHOOSE v \in 1..16 : UpperHexDigits[v] = ch]
    ELSE ch

\* the value of channel n (1 red, 2 green, 3 blue) of a "#rrggbb" string,
\* read from its two characters
ChannelOf(str, n) == 16 * HexValue(str[2 * n]) + HexValue(str[2 * n + 1])

\* C21 as stated: lightening by 0 percent returns the input string itself.
C21_LightenZeroIsInput ==
    (colorResult.helper = "lightenColor" /\ percentArg = 0) =>
        colorResult.value = colorArg

\* C21 as amended: lightening by 0 percent returns the input string with its
\* hex letters in lower case, which denotes the same colour.
C21_LightenZeroIsSameColor ==
    (colorResult.helper = "lightenColor" /\ percentArg = 0) =>
        /\ colorResult.value = [i \in DOMAIN colorArg |-> LowerCase(colorArg[i])]
        /\ \A n \in 1..3 : ChannelOf(colorResult.value, n) = ChannelOf(colorArg, n)

\* C21 witness: "#FF69B4" lightened by 0
C21_Witness ==
    /\ colorResult.helper = "lightenColor"
    /\ percentArg = 0
    /\ colorArg = << "#", "F", "F", "6", "9", "B", "4" >>
    /\ colorResult.value = << "#", "f", "f", "6", "9", "b", "4" >>

StructuralShapes(shapes) == SelectSeq(shapes, LAMBDA sh : sh.name # "sparkle")

\* a scene without its sparkle circles
Structural(scene) ==
    [i \in DOMAIN scene |->
        IF "shapes" \in DOMAIN scene[i]
        THEN [scene[i] EXCEPT !.shapes = StructuralShapes(@)]
        ELSE scene[i]]

C25_CompletedWithinSession ==
    /\ \A j, k \in DOMAIN completedSections :
          j # k => completedSections[j] # completedSections[k]
    /\ currentStyling # NULL =>
          /\ \A k \in DOMAIN completedSections :
                completedSections[k] \in 0..(Sections(currentStyling) - 1)
          /\ Len(completedSections) <= Sections(currentStyling)
    /\ (currentStyling # NULL /\ HasSections(Cur)) =>
          /\ Len(HairGroup(Cur).sections) = Sections(currentStyling)
          /\ \A i \in SectionIndices :
                i + 1 \in DOMAIN HairGroup(Cur).sections =>
                    (Includes(completedSections, i)
                        <=> HairGroup(Cur).sections[i + 1] = StyledSection)

\* C25 witness: a box-braids session that follows a completed cornrows
\* session (whose only section was index 0) with index 1 alone completed
C25_Witness ==
    /\ hairStyle = "cornrows"
    /\ currentStyling = "box-braids"
    /\ HasSections(Cur)
    /\ completedSections = << 1 >>

\* C26: whenever the hair layer holds placeholder regions a session is
\* current, so that a click on a region finds its session.
C26_PlaceholdersHaveSession ==
    HasSections(Cur) => currentStyling # NULL

\* the hair layer holds exactly the current session's total placeholder
\* regions, and exactly the regions of the completed sections are styled
SessionShowsPlaceholders ==
    /\ HasSections(Cur)
    /\ Len(HairGroup(Cur).sections) = Sections(currentStyling)
    /\ \A i \in 0..(Sections(currentStyling) - 1) :
          Includes(completedSections, i)
              <=> HairGroup(Cur).sections[i + 1] = StyledSection

\* C27: while a session is current and short of its total, with its
\* placeholder regions in the hair layer, a step that leaves the session as
\* it is (a write to the store from another panel, an activity switch)
\* leaves the regions in the hair layer, styled as before.
C27_SessionKeepsPlaceholders ==
    [][(/\ currentStyling # NULL
        /\ Len(completedSections) < Sections(currentStyling)
        /\ SessionShowsPlaceholders
        /\ currentStyling' = currentStyling
        /\ completedSections' = completedSections)
          => SessionShowsPlaceholders']_vars

\* C28: the hair-care click counter is always one of 0..CLICKS_NEEDED, and a
\* click on the hair while no step is active leaves the counter and the
\* character's attributes as they were.
C28_CounterWithinNeeded ==
    /\ [](careClicks \in 0..CLICKS_NEEDED)
    /\ [][(HairClick /\ currentHairCareStep = NULL) =>
             /\ careClicks' = careClicks
             /\ gameState'.character = gameState.character]_vars

\* C29: a click on a placeholder region of a styling session changes
\* neither the hair-care step nor its click counter.
C29_SectionClickLeavesHairCare ==
    [][(\E i \in SectionIndices : SectionClick(i)) =>
          /\ currentHairCareStep' = currentHairCareStep
          /\ careClicks' = careClicks]_vars

\* C30: starting a step while another is in progress leaves the new step
\* the one active step with the counter at 0; from there the counter only
\* grows by one per click or returns to 0 with the start of a step, and a
\* step ends only with a click that brings the counter to CLICKS_NEEDED or
\* more, so the clicks of the abandoned step never count for the new one.
C30_RestartDiscardsProgress ==
    [][/\ \A st \in StartedSteps :
             (StartHairCareStepButton(st) /\ currentHairCareStep # NULL) =>
                 (currentHairCareStep' = st /\ careClicks' = 0)
       /\ (currentHairCareStep # NULL /\ careClicks' # careClicks) =>
             \/ careClicks' = careClicks + 1
             \/ careClicks' = 0 /\ StartHairCareStep
       /\ (currentHairCareStep # NULL /\ currentHairCareStep' = NULL) =>
             (careClicks' = careClicks + 1 /\ careClicks' >= CLICKS_NEEDED)]_vars

\* C30 witness: rinse just started, the counter at 0 and the bar empty,
\* while the sparkle of a click counted before the start is still on the page
C30_Witness ==
    /\ currentHairCareStep = "rinse"
    /\ careClicks = 0
    /\ hairCareInstructions.content = "step"
    /\ hairCareInstructions.progressWidth = 0
    /\ HasHairGroup(Cur)
    /\ HairGroup(Cur).onclick
    /\ sparkles = 1

====
